---- MODULE Spec2Model ----
(***************************************************************************)
(* State-machine model of the chat widget: the ChatWindow component and    *)
(* the useChat hook, each with its message list, loading flag and the      *)
(* transport calls it has issued.                                          *)
(*                                                                         *)
(* A text is a sequence of characters.  The fixed texts of the program     *)
(* (greeting, fallbacks) are one-token sequences, so that they have the    *)
(* same type as typed text.  Timestamps are not modelled: nothing reads    *)
(* them back except the rendering.                                         *)
(***************************************************************************)
EXTENDS Integers, Sequences, FiniteSets, TLC

\* ---------------------------------------------------------------- bounds
MaxPad == 1
MaxSubmits == 2

\* ------------------------------------------------------------------ texts
Whitespace == {" "}
Words == {<<>>, <<"a">>}
Pad(n) == [k \in 1..n |-> " "]
\* what is typed or sent: nothing or a word, with whitespace before and after
Texts ==
    {Pad(p[1]) \o w \o Pad(p[2]) :
        p \in {q \in (0..MaxPad) \X (0..MaxPad) : q[1] + q[2] <= MaxPad}, w \in Words}
ReplyTexts == {<<"Hi!">>}

Greeting == <<"Hi there! How can I help you?">>
WindowFallback == <<"Something went wrong. Please try again.">>
HookFallback == <<"Error contacting server.">>
\* the value a property read yields when the object has no such property
Undefined == <<"undefined">>

RECURSIVE TrimStart(_)
TrimStart(s) ==
    IF s = <<>> THEN s
    ELSE IF Head(s) \in Whitespace THEN TrimStart(Tail(s)) ELSE s

RECURSIVE TrimEnd(_)
TrimEnd(s) ==
    IF s = <<>> THEN s
    ELSE IF s[Len(s)] \in Whitespace THEN TrimEnd(SubSeq(s, 1, Len(s) - 1)) ELSE s

\* String.prototype.trim
Trim(s) == TrimEnd(TrimStart(s))

\* ------------------------------------------------- records and transport
\* reading property name of object obj
ReadField(obj, name) == IF name \in DOMAIN obj THEN obj[name] ELSE Undefined

\* the only property of a one-property object
FieldOf(obj) == CHOOSE f \in DOMAIN obj : TRUE

\* the response objects the backend may answer with: one property carrying
\* the reply text, named as the type declares it or as ChatWindow reads it
ResponseFields == {"reply", "response"}
Responses == {f :> t : f \in ResponseFields, t \in ReplyTexts}

\* the transport function: one pending call carrying the request, which the
\* backend later resolves or rejects
sendMessage(req) == [req |-> req, status |-> "pending"]

\* an issued call as the component holds it: the call, the id of the user
\* message it was issued for, and the id of the bot message its completion
\* appended (0 while there is none)
Issued(call, user) == call @@ [user |-> user, bot |-> 0]
Pending(log) == {c \in DOMAIN log : log[c].status = "pending"}
Settled(log) == {c \in DOMAIN log : log[c].status # "pending"}

Senders == {"user", "bot"}
ChatMessage(id, sender, text) == [id |-> id, sender |-> sender, text |-> text]

\* setState((prev) => [...prev, m])
AppendReplacingLast(prev, m) == [prev EXCEPT ![Len(prev)] = m]
AppendMessage(prev, m) == Append(prev, m)

UserCount(msgs) == Cardinality({i \in DOMAIN msgs : msgs[i].sender = "user"})
BotCount(msgs) == Cardinality({i \in DOMAIN msgs : msgs[i].sender = "bot"})

\* ------------------------------------------------------------------ state
VARIABLES
    mounted,       \* the component that is mounted: ChatWindow, or a user of useChat
    messages,      \* ChatWindow: the message list
    input,         \* ChatWindow: the draft text
    isLoading,     \* ChatWindow: the loading flag
    calls,         \* ChatWindow: the transport calls issued, in issue order
    hookMessages,  \* useChat: the message list
    mutations,     \* useChat: the mutations started, in start order
    current,       \* useChat: the mutation the observer follows, 0 if none
    lastOp         \* the handler that ran last, with its argument

vars == <<mounted, messages, input, isLoading, calls, hookMessages, mutations, current, lastOp>>
windowVars == <<messages, input, isLoading, calls>>
hookVars == <<hookMessages, mutations, current>>

\* text is the text submitted, typed or answered; field is the property of the
\* response object that carried it ("" when the handler had no response)
Op(comp, op, text, field, call) ==
    [comp |-> comp, op |-> op, text |-> text, field |-> field, call |-> call]

\* crypto.randomUUID() / nanoid(): a fresh id; a list only grows, one id a message
FreshId(msgs) == Len(msgs) + 1

\* the bound on the run: submissions accepted so far
Submitted == UserCount(messages) + UserCount(hookMessages)

Components == {"ChatWindow", "useChat"}

Init ==
    /\ mounted \in Components
    /\ messages = <<ChatMessage(1, "bot", Greeting)>>
    /\ input = <<>>
    /\ isLoading = FALSE
    /\ calls = <<>>
    /\ hookMessages = <<>>
    /\ mutations = <<>>
    /\ current = 0
    /\ lastOp = Op(mounted, "mount", <<>>, "", 0)

\* ------------------------------------------------------------ ChatWindow
\* if (!input.trim()) return;
Accepts(text) == Trim(text) # <<>>

UserMessageTrimmed(id, text) == ChatMessage(id, "user", Trim(text))
UserMessage(id, text) == ChatMessage(id, "user", text)

WindowRequestTrimmed(text) == "question" :> Trim(text)
WindowRequest(text) == "question" :> text

BotMessage(id, res) == ChatMessage(id, "bot", ReadField(res, "response"))

ErrorMessage(id) == ChatMessage(id, "bot", WindowFallback)

\* the catch block
CatchRethrow(msgs) == msgs
Catch(msgs) == AppendMessage(msgs, ErrorMessage(FreshId(msgs)))

\* <Input disabled={isLoading}> and <Button type="submit" disabled={isLoading}>
FormAlwaysEnabled == TRUE
FormEnabled == ~isLoading

\* onChange={(e) => setInput(e.target.value)}
ChangeInput(v) ==
    /\ mounted = "ChatWindow"
    /\ FormEnabled
    /\ input' = v
    /\ lastOp' = Op("ChatWindow", "change", v, "", 0)
    /\ UNCHANGED <<messages, isLoading, calls>>
    /\ UNCHANGED <<mounted, hookVars>>

\* handleSubmit up to the await
HandleSubmit ==
    /\ mounted = "ChatWindow"
    /\ FormEnabled
    /\ lastOp' = Op("ChatWindow", "submit", input, "", 0)
    /\ IF ~Accepts(input)
       THEN UNCHANGED windowVars
       ELSE /\ Submitted < MaxSubmits
            /\ messages' = AppendMessage(messages, UserMessage(FreshId(messages), input))
            /\ input' = <<>>
            /\ isLoading' = TRUE
            /\ calls' = Append(calls, Issued(sendMessage(WindowRequest(input)), FreshId(messages)))
    /\ UNCHANGED <<mounted, hookVars>>

\* handleSubmit after the await, the call having resolved with res
HandleResolved(c, res) ==
    /\ mounted = "ChatWindow"
    /\ calls[c].status = "pending"
    /\ calls' = [calls EXCEPT ![c].status = "resolved", ![c].bot = FreshId(messages)]
    /\ messages' = AppendMessage(messages, BotMessage(FreshId(messages), res))
    /\ isLoading' = FALSE
    /\ lastOp' = Op("ChatWindow", "resolve", res[FieldOf(res)], FieldOf(res), c)
    /\ UNCHANGED input
    /\ UNCHANGED <<mounted, hookVars>>

\* handleSubmit after the await, the call having rejected
HandleRejected(c) ==
    /\ mounted = "ChatWindow"
    /\ calls[c].status = "pending"
    /\ calls' = [calls EXCEPT ![c].status = "rejected", ![c].bot = FreshId(messages)]
    /\ messages' = Catch(messages)
    /\ isLoading' = FALSE
    /\ lastOp' = Op("ChatWindow", "reject", <<>>, "", c)
    /\ UNCHANGED input
    /\ UNCHANGED <<mounted, hookVars>>

\* --------------------------------------------------------------- useChat
HookUserMessage(id, text) == ChatMessage(id, "user", text)

HookRequest(text) == "message" :> text

HookBotMessage(id, data) == ChatMessage(id, "bot", ReadField(data, "reply"))

HookErrorMessage(id) == ChatMessage(id, "bot", HookFallback)

OnErrorNothing(msgs) == msgs
OnError(msgs) == AppendMessage(msgs, HookErrorMessage(FreshId(msgs)))

\* isLoading: mutation.isPending, the status of the mutation the observer follows
HookIsLoading == current # 0 /\ mutations[current].status = "pending"

\* send(text): append the user message, mutation.mutate({ message: text })
Send(text) ==
    /\ mounted = "useChat"
    /\ Submitted < MaxSubmits
    /\ hookMessages' = AppendMessage(hookMessages, HookUserMessage(FreshId(hookMessages), text))
    /\ mutations' = Append(mutations, Issued(sendMessage(HookRequest(text)), FreshId(hookMessages)))
    /\ current' = Len(mutations) + 1
    /\ lastOp' = Op("useChat", "submit", text, "", 0)
    /\ UNCHANGED <<mounted, windowVars>>

\* the mutation's mutationFn resolved with data: onSuccess
OnSuccess(m, data) ==
    /\ mounted = "useChat"
    /\ mutations[m].status = "pending"
    /\ mutations' = [mutations EXCEPT ![m].status = "resolved", ![m].bot = FreshId(hookMessages)]
    /\ hookMessages' = AppendMessage(hookMessages, HookBotMessage(FreshId(hookMessages), data))
    /\ lastOp' = Op("useChat", "resolve", data[FieldOf(data)], FieldOf(data), m)
    /\ UNCHANGED current
    /\ UNCHANGED <<mounted, windowVars>>

\* the mutation's mutationFn rejected: onError
OnErrorStep(m) ==
    /\ mounted = "useChat"
    /\ mutations[m].status = "pending"
    /\ mutations' = [mutations EXCEPT ![m].status = "rejected", ![m].bot = FreshId(hookMessages)]
    /\ hookMessages' = OnError(hookMessages)
    /\ lastOp' = Op("useChat", "reject", <<>>, "", m)
    /\ UNCHANGED current
    /\ UNCHANGED <<mounted, windowVars>>

\* ------------------------------------------------------------------ system
Next ==
    \/ \E v \in Texts : ChangeInput(v)
    \/ HandleSubmit
    \/ \E c \in DOMAIN calls, res \in Responses : HandleResolved(c, res)
    \/ \E c \in DOMAIN calls : HandleRejected(c)
    \/ \E text \in Texts : Send(text)
    \/ \E m \in DOMAIN mutations, data \in Responses : OnSuccess(m, data)
    \/ \E m \in DOMAIN mutations : OnErrorStep(m)

Spec == Init /\ [][Next]_vars

\* ------------------------------------------------------------- properties
Last(msgs) == msgs[Len(msgs)]

\* new is old with exactly the message m added at the end
Appended(old, new) ==
    /\ Len(new) = Len(old) + 1
    /\ SubSeq(new, 1, Len(old)) = old

\* the text a request or response object carries
Carried(obj) == obj[FieldOf(obj)]

\* the bot messages of msgs whose id is id
BotWithId(msgs, id) == {i \in DOMAIN msgs : msgs[i].id = id /\ msgs[i].sender = "bot"}
UserWithId(msgs, id) == {i \in DOMAIN msgs : msgs[i].id = id /\ msgs[i].sender = "user"}

\* every call of log has no bot message while it is pending and exactly one,
\* its own, once it has settled; first is the number of bot messages the
\* list starts with
OneBotEach(log, msgs, first) ==
    /\ \A c \in Pending(log) : log[c].bot = 0
    /\ \A c \in Settled(log) : Cardinality(BotWithId(msgs, log[c].bot)) = 1
    /\ \A c, d \in Settled(log) : c # d => log[c].bot # log[d].bot
    /\ BotCount(msgs) - first = Cardinality(Settled(log))

\* C1: every accepted submission, of ChatWindow or of useChat, has no bot
\* message appended for it while its call is pending and exactly one once the
\* call has settled, and no bot message is appended for anything else.
C1_OneBotPerSubmission ==
    /\ OneBotEach(calls, messages, 1)
    /\ OneBotEach(mutations, hookMessages, 0)

\* two overlapping submissions of useChat, the later one answered first
C1_Witness ==
    /\ Len(mutations) = 2
    /\ mutations[2].status = "resolved"
    /\ mutations[1].status = "rejected"
    /\ mutations[1].bot > mutations[2].bot

\* C2: the loading flag is true exactly when a call issued by a submission
\* has not settled yet, in ChatWindow and in useChat.
C2_LoadingIffOutstanding ==
    /\ isLoading <=> Pending(calls) # {}
    /\ HookIsLoading <=> Pending(mutations) # {}

\* C3: a submission of an empty or whitespace-only text, through
\* handleSubmit or through send, changes neither the message list, nor the
\* loading flag, nor the calls in flight.
C3_BlankSubmitChangesNothing ==
    [][(lastOp'.op = "submit" /\ Trim(lastOp'.text) = <<>>) =>
         /\ UNCHANGED <<messages, isLoading, calls>>
         /\ UNCHANGED <<hookMessages, mutations>>
         /\ HookIsLoading' = HookIsLoading]_vars

\* C4: the submit step of a text that is not empty after trimming appends
\* one user message with exactly the submitted text as the last message and
\* sets loading; in ChatWindow it also clears the draft.
C4_SubmitAppendsUserMessage ==
    [][(lastOp'.op = "submit" /\ Trim(lastOp'.text) # <<>>) =>
         IF lastOp'.comp = "ChatWindow"
         THEN /\ Appended(messages, messages')
              /\ Last(messages').sender = "user"
              /\ Last(messages').text = lastOp'.text
              /\ input' = <<>>
              /\ isLoading'
              /\ UNCHANGED hookMessages
         ELSE /\ Appended(hookMessages, hookMessages')
              /\ Last(hookMessages').sender = "user"
              /\ Last(hookMessages').text = lastOp'.text
              /\ HookIsLoading'
              /\ UNCHANGED messages]_vars

C4_Witness ==
    /\ lastOp = Op("ChatWindow", "submit", <<" ", "a">>, "", 0)
    /\ Last(messages).text = <<" ", "a">>
    /\ isLoading
    /\ input = <<>>

\* C5: when the call of a submission rejects, one bot message with the fixed
\* fallback text of the component is appended, loading is false afterwards
\* and the next submission is accepted.
C5_RejectAppendsFallback ==
    [][lastOp'.op = "reject" =>
         IF lastOp'.comp = "ChatWindow"
         THEN /\ Appended(messages, messages')
              /\ Last(messages').sender = "bot"
              /\ Last(messages').text = WindowFallback
              /\ ~isLoading'
              /\ FormEnabled'
         ELSE /\ Appended(hookMessages, hookMessages')
              /\ Last(hookMessages').sender = "bot"
              /\ Last(hookMessages').text = HookFallback
              /\ ~HookIsLoading']_vars

\* the property of the response object that ChatResponse declares
DeclaredReplyField == "reply"

\* C6: when the call of a submission resolves with a response object that
\* carries the reply text in the property ChatResponse declares, one bot
\* message is appended whose text is that reply text, and loading is false
\* afterwards, in ChatWindow and in useChat.
C6_ResolveAppendsReply ==
    [][(lastOp'.op = "resolve" /\ lastOp'.field = DeclaredReplyField) =>
         IF lastOp'.comp = "ChatWindow"
         THEN /\ Appended(messages, messages')
              /\ Last(messages').sender = "bot"
              /\ Last(messages').text = lastOp'.text
              /\ ~isLoading'
         ELSE /\ Appended(hookMessages, hookMessages')
              /\ Last(hookMessages').sender = "bot"
              /\ Last(hookMessages').text = lastOp'.text
              /\ ~HookIsLoading']_vars

\* C7: ChatWindow never has two calls outstanding, and it accepts a
\* submission only while it is not loading.
C7_NoOverlap ==
    [][/\ Cardinality(Pending(calls')) <= 1
       /\ Len(calls') > Len(calls) => ~isLoading /\ Pending(calls) = {}]_vars

C7_Witness ==
    /\ Len(calls) = 2
    /\ calls[1].status # "pending"
    /\ calls[2].status = "pending"

\* every call of log was issued for a user message of its own and carries
\* the text of that message, and every user message has its call
OneCallEach(log, msgs) ==
    /\ Len(log) = UserCount(msgs)
    /\ \A c \in DOMAIN log :
         /\ Cardinality(UserWithId(msgs, log[c].user)) = 1
         /\ \A i \in UserWithId(msgs, log[c].user) : Carried(log[c].req) = msgs[i].text
    /\ \A c, d \in DOMAIN log : c # d => log[c].user # log[d].user

\* C8: the calls ever issued are as many as the user messages, one for each
\* and carrying its text, whatever has failed since.
C8_OneCallPerSubmission ==
    /\ OneCallEach(calls, messages)
    /\ OneCallEach(mutations, hookMessages)

\* a second call after a failed one, which was not issued again
C8_Witness ==
    /\ Len(calls) = 2
    /\ calls[1].status = "rejected"
    /\ Carried(calls[1].req) = <<"a", " ">>

\* C9: every step leaves each message list as it was or adds one message at
\* its end.
C9_AppendOnly ==
    [][/\ messages' = messages \/ Appended(messages, messages')
       /\ hookMessages' = hookMessages \/ Appended(hookMessages, hookMessages')]_vars

\* a blank submission to ChatWindow after a finished exchange
C9_Witness ==
    /\ Len(messages) = 3
    /\ lastOp.comp = "ChatWindow"
    /\ lastOp.op = "submit"
    /\ Trim(lastOp.text) = <<>>

\* C10: the list of ChatWindow is the greeting followed by user and bot
\* messages in alternation; its last message is a user message exactly when
\* loading, and there is one more user message than replies exactly then.
C10_Alternation ==
    /\ messages[1] = ChatMessage(1, "bot", Greeting)
    /\ \A i \in 2..Len(messages) :
         messages[i].sender = IF i % 2 = 0 THEN "user" ELSE "bot"
    /\ isLoading <=> Last(messages).sender = "user"
    /\ UserCount(messages) - (BotCount(messages) - 1) = IF isLoading THEN 1 ELSE 0

C10_Witness ==
    /\ Len(messages) = 5
    /\ messages[3].text = WindowFallback
    /\ messages[5].text # WindowFallback
    /\ ~isLoading

====
